---- MODULE Spec2Model ----
(***************************************************************************)
(* A model of launchbar-node (src/index.js): the facade that turns calls   *)
(* into osascript commands, the environment snapshot read at module load,  *)
(* and textAction.                                                         *)
(*                                                                         *)
(* Text is a sequence of units.  A unit is one character ("a", the double  *)
(* quote, the backslash, the newline) or an atomic run of ordinary         *)
(* characters holding no quote, backslash or newline (a piece of a command *)
(* template such as "tell application ").  A JavaScript value is a record  *)
(* [t, v]: t is its typeof-like tag and v its text (a number's v is its    *)
(* decimal spelling, an array's v the sequence of its elements).           *)
(***************************************************************************)
EXTENDS Naturals, Sequences, FiniteSets

VARIABLES processEnv, loadEnv, env, calls

vars == <<processEnv, loadEnv, env, calls>>

\* ---------------------------------------------------------------- bounds

MaxLen == 2
MaxArgs == 2
MaxOut == 3
MaxCalls == 2
MaxEnvSet == 1
MaxEnvChange == 1

\* ------------------------------------------------------------------ text

Quote == "\""
Backslash == "\\"
Newline == "\n"

Alphabet == {"a", Quote, Backslash, Newline}

RECURSIVE SeqsUpTo(_, _)
SeqsUpTo(S, n) ==
  IF n = 0 THEN {<<>>}
  ELSE LET shorter == SeqsUpTo(S, n - 1)
       IN shorter \cup {Append(s, x) : s \in {r \in shorter : Len(r) = n - 1}, x \in S}

Texts == SeqsUpTo(Alphabet, MaxLen)

\* ------------------------------------------------------- JavaScript values

Undefined == [t |-> "undefined", v |-> <<>>]
Str(s) == [t |-> "string", v |-> s]
Num(digits) == [t |-> "number", v |-> digits]
Bool(b) == [t |-> "boolean", v |-> IF b THEN <<"true">> ELSE <<"false">>]
Arr(elements) == [t |-> "array", v |-> elements]

IsString(x) == x.t = "string"

\* `${x}` in a template literal.
Interpolate(x) ==
  IF x.t = "undefined" THEN <<"undefined">> ELSE x.v

\* The operand test of `x || d`.
Falsy(x) ==
  \/ x.t = "undefined"
  \/ x.t = "string" /\ x.v = <<>>
  \/ x.t = "number" /\ x.v = <<"0">>
  \/ x.t = "boolean" /\ x.v = <<"false">>

OrElse(x, d) == IF Falsy(x) THEN d ELSE x

\* ------------------------------------------------- escape-string-applescript

RECURSIVE EscapeText(_)
EscapeText(s) ==
  IF s = <<>> THEN <<>>
  ELSE (IF Head(s) \in {Quote, Backslash} THEN <<Backslash, Head(s)>> ELSE <<Head(s)>>)
       \o EscapeText(Tail(s))

\* require("escape-string-applescript"): a backslash before every double
\* quote and backslash of a string.  A value that is no string cannot be
\* escaped: the call throws a TypeError and yields no value.
escapeString(x) ==
  IF IsString(x) THEN [threw |-> FALSE, value |-> Str(EscapeText(x.v))]
  ELSE [threw |-> TRUE, value |-> Undefined]

\* ------------------------------------------------- the interpreter's reading

\* How osascript reads a command text: a double quote opens a string
\* literal, inside it a backslash takes the next unit literally, and the next
\* bare double quote closes it.  lits: the literals' contents in order;
\* code: the units outside literals; open: the text ends inside a literal.
\* The reader's modes: outside a literal, inside one, and just after a
\* backslash inside one.
ReadModes == {"out", "in", "esc"}

ReadStart == [mode |-> "out", cur |-> <<>>, lits |-> <<>>, code |-> <<>>]

LexStep(st, u) ==
  CASE st.mode = "out" /\ u = Quote -> [st EXCEPT !.mode = "in", !.cur = <<>>]
    [] st.mode = "out" /\ u # Quote -> [st EXCEPT !.code = Append(@, u)]
    [] st.mode = "in" /\ u = Quote ->
         [st EXCEPT !.mode = "out", !.lits = Append(@, st.cur), !.cur = <<>>]
    [] st.mode = "in" /\ u = Backslash -> [st EXCEPT !.mode = "esc"]
    [] st.mode = "in" /\ u \notin {Quote, Backslash} -> [st EXCEPT !.cur = Append(@, u)]
    [] st.mode = "esc" -> [st EXCEPT !.mode = "in", !.cur = Append(@, u)]

\* The reader's state after the units lo..hi of cmd, started in state st.
RECURSIVE LexRange(_, _, _, _)
LexRange(cmd, lo, hi, st) ==
  IF lo > hi THEN st
  ELSE IF lo = hi THEN LexStep(st, cmd[lo])
  ELSE LET mid == (lo + hi) \div 2
           half == LexRange(cmd, lo, mid, st)
       IN IF half.mode \in ReadModes THEN LexRange(cmd, mid + 1, hi, half) ELSE half

Lex(cmd) ==
  LET st == LexRange(cmd, 1, Len(cmd), ReadStart) IN
  [lits |-> st.lits, code |-> st.code, open |-> st.mode # "out"]

\* ------------------------------------------------------------ the commands

TellLaunchBar == <<"tell application ", Quote, "LaunchBar", Quote>>

hideCommand == TellLaunchBar \o <<" to hide">>

remainActiveCommand == TellLaunchBar \o <<" to remain active">>

hasKeyboardFocusCommand == TellLaunchBar \o <<" to return has keyboard focus">>

setClipboardStringCommand(text) ==
  TellLaunchBar \o <<" to set the clipboard to ", Quote>>
    \o Interpolate(escapeString(text).value) \o <<Quote>>

clearClipboardCommand == <<"set the clipboard to ", Quote, Quote>>

\* The text interpolated as it is.
pasteCommandUnescaped(text) ==
  TellLaunchBar \o <<" to paste in frontmost application ", Quote>>
    \o Interpolate(text) \o <<Quote>>

pasteCommand(text) ==
  TellLaunchBar \o <<" to paste in frontmost application ", Quote>>
    \o Interpolate(escapeString(text).value) \o <<Quote>>

performServiceCommand(service, argv) ==
  TellLaunchBar \o <<" to perform service ", Quote>> \o Interpolate(service)
    \o <<Quote, " with string ", Quote>> \o Interpolate(escapeString(argv).value) \o <<Quote>>

\* No title unless the caller gives one.
displayNotificationFieldsUntitled(options) ==
  IF options.given
  THEN [title |-> OrElse(escapeString(options.title).value, Str(<<"LaunchBar">>)),
        text |-> OrElse(escapeString(options.text).value, Str(<<>>)),
        subtitle |-> OrElse(escapeString(options.subtitle).value, Str(<<>>)),
        callbackUrl |-> OrElse(options.callbackUrl, Str(<<>>)),
        afterDelay |-> OrElse(options.afterDelay, Num(<<"0">>))]
  ELSE [title |-> Str(<<>>), text |-> Str(<<>>), subtitle |-> Str(<<>>),
        callbackUrl |-> Str(<<>>), afterDelay |-> Num(<<"0">>)]

\* src/index.js 145-148: with options given, escapeString is called on the
\* title, the text and the subtitle, whether the caller supplied them or not.
displayNotificationThrows(options) ==
  /\ options.given
  /\ \/ escapeString(options.title).threw
     \/ escapeString(options.text).threw
     \/ escapeString(options.subtitle).threw

\* src/index.js 138-151: the five fields as they are embedded.  options.given
\* is FALSE for a call without options; an omitted field is Undefined.
displayNotificationFields(options) ==
  IF options.given
  THEN [title |-> OrElse(escapeString(options.title).value, Str(<<"LaunchBar">>)),
        text |-> OrElse(escapeString(options.text).value, Str(<<>>)),
        subtitle |-> OrElse(escapeString(options.subtitle).value, Str(<<>>)),
        callbackUrl |-> OrElse(options.callbackUrl, Str(<<>>)),
        afterDelay |-> OrElse(options.afterDelay, Num(<<"0">>))]
  ELSE [title |-> Str(<<"LaunchBar">>), text |-> Str(<<>>), subtitle |-> Str(<<>>),
        callbackUrl |-> Str(<<>>), afterDelay |-> Num(<<"0">>)]

\* The template's text between its placeholders ("(cont)" stands for the
\* line continuation and the indentation that follows it).
NotifyCode ==
  <<"tell application ", " to display in notification center ",
    " (cont) with title ", " (cont) subtitle ", " (cont) callback URL ",
    " (cont) after delay ">>

displayNotificationCommand(options) ==
  LET f == displayNotificationFields(options) IN
  TellLaunchBar \o <<NotifyCode[2], Quote>> \o Interpolate(f.text)
    \o <<Quote, NotifyCode[3], Quote>> \o Interpolate(f.title)
    \o <<Quote, NotifyCode[4], Quote>> \o Interpolate(f.subtitle)
    \o <<Quote, NotifyCode[5], Quote>> \o Interpolate(f.callbackUrl)
    \o <<Quote, NotifyCode[6], Quote>> \o Interpolate(f.afterDelay) \o <<Quote>>

\* -------------------------------------------------------------- textAction

\* String.prototype.split("\n")
RECURSIVE SplitFrom(_, _, _)
SplitFrom(s, i, cur) ==
  IF i > Len(s) THEN <<cur>>
  ELSE IF s[i] = Newline THEN <<cur>> \o SplitFrom(s, i + 1, <<>>)
  ELSE SplitFrom(s, i + 1, Append(cur, s[i]))

\* A split that leaves the empty segments out.
SplitSkippingEmpty(s) == SelectSeq(SplitFrom(s, 1, <<>>), LAMBDA x : x # <<>>)

Split(s) == SplitFrom(s, 1, <<>>)

\* Array.prototype.join(joiner)
RECURSIVE Join(_, _)
Join(lines, joiner) ==
  IF lines = <<>> THEN <<>>
  ELSE IF Len(lines) = 1 THEN lines[1]
  ELSE lines[1] \o joiner \o Join(Tail(lines), joiner)

\* The text processing functions a caller passes.
Functions == {"identity", "upper", "quoted"}

UpperUnit(u) == IF u = "a" THEN "A" ELSE u

Apply(f, line) ==
  CASE f = "identity" -> line
    [] f = "upper" -> [i \in 1..Len(line) |-> UpperUnit(line[i])]
    [] f = "quoted" -> <<Quote>> \o line \o <<Quote>>

RECURSIVE Flat(_)
Flat(lists) == IF lists = <<>> THEN <<>> ELSE Head(lists) \o Flat(Tail(lists))

\* src/index.js 180-183
inputText(textArguments) ==
  IF IsString(textArguments) THEN Arr(<<textArguments>>) ELSE textArguments

\* inputText.map throws on a value that is no array, and textArgumnet.split
\* on an element that is no string.
textActionThrows(textArguments) ==
  LET input == inputText(textArguments) IN
  \/ input.t # "array"
  \/ \E i \in 1..Len(input.v) : ~IsString(input.v[i])

\* src/index.js 184-190
allLines(textArguments, f) ==
  LET input == inputText(textArguments).v IN
  Flat([i \in 1..Len(input) |->
          LET segments == Split(input[i].v) IN
          [k \in 1..Len(segments) |-> Apply(f, segments[k])]])

DefaultJoiner == <<Newline>>

\* joiner = "\n" in the parameter list: the default stands in for undefined.
joinerOf(joiner) == IF joiner.t = "undefined" THEN DefaultJoiner ELSE joiner.v

\* ------------------------------------------------------------ JSON.stringify

RECURSIVE JSONText(_)
JSONText(s) ==
  IF s = <<>> THEN <<>>
  ELSE (CASE Head(s) = Quote -> <<Backslash, Quote>>
          [] Head(s) = Backslash -> <<Backslash, Backslash>>
          [] Head(s) = Newline -> <<Backslash, "n">>
          [] OTHER -> <<Head(s)>>)
       \o JSONText(Tail(s))

JSONString(s) == <<Quote>> \o JSONText(s) \o <<Quote>>

\* JSON.stringify of the array of {title: x} records (src/index.js 194-198).
RECURSIVE JSONTitleItems(_)
JSONTitleItems(lines) ==
  IF lines = <<>> THEN <<>>
  ELSE <<"{", Quote, "title", Quote, ":">> \o JSONString(Head(lines)) \o <<"}">>
       \o (IF Len(lines) > 1 THEN <<",">> ELSE <<>>) \o JSONTitleItems(Tail(lines))

JSONTitles(lines) == <<"[">> \o JSONTitleItems(lines) \o <<"]">>

\* JSON.stringify of what output() is given: a string or an array of strings.
RECURSIVE JSONStrings(_)
JSONStrings(items) ==
  IF items = <<>> THEN <<>>
  ELSE JSONString(Head(items).v) \o (IF Len(items) > 1 THEN <<",">> ELSE <<>>)
       \o JSONStrings(Tail(items))

JSONStringify(data) ==
  IF IsString(data) THEN JSONString(data.v) ELSE <<"[">> \o JSONStrings(data.v) \o <<"]">>

\* ------------------------------------------------------------ task.execFile

Whitespace == {" ", Newline}

RECURSIVE TrimStart(_)
TrimStart(s) ==
  IF s # <<>> /\ Head(s) \in Whitespace THEN TrimStart(Tail(s)) ELSE s

RECURSIVE TrimEnd(_)
TrimEnd(s) ==
  IF s # <<>> /\ s[Len(s)] \in Whitespace THEN TrimEnd(SubSeq(s, 1, Len(s) - 1)) ELSE s

Trim(s) == TrimEnd(TrimStart(s))

\* A process as task.execFile("/usr/bin/osascript", ["-e", cmd]) starts it.
Spawn(cmd) == [cmd |-> cmd, state |-> "running", status |-> "none", stdout |-> <<>>]

\* What the promise of task.execFile settles to once the process has ended:
\* the trimmed standard output of a process that exited with status 0, a
\* rejection for one that could not be started or exited otherwise.
execFileFulfilled(proc) == proc.status = "ok"

execFileValue(proc) == Str(Trim(proc.stdout))

\* A call that goes on without waiting for its process.
NotAwaited(call) == call.procs # <<>>

\* `await`: the function goes on only when the awaited process has ended.
Awaited(call) == \A i \in 1..Len(call.procs) : call.procs[i].state = "exited"

\* A result that only begins with "true".
hasKeyboardFocusValueStartsWith(result) ==
  Bool(IsString(result) /\ result.v # <<>> /\ result.v[1] = "true")

\* src/index.js 79
hasKeyboardFocusValue(result) == Bool(IsString(result) /\ result.v = <<"true">>)

\* ------------------------------------------------------- LaunchBar.env

EnvNames ==
  {"LB_ACTION_PATH", "LB_CACHE_PATH", "LB_SUPPORT_PATH", "LB_DEBUG_LOG_ENABLED",
   "LB_LAUNCHBAR_PATH", "LB_SCRIPT_TYPE", "LB_OPTION_COMMAND_KEY",
   "LB_OPTION_ALTERNATE_KEY", "LB_OPTION_SHIFT_KEY", "LB_OPTION_CONTROL_KEY",
   "LB_OPTION_SPACE_KEY", "LB_OPTION_RUN_IN_BACKGROUND", "LB_OPTION_LIVE_FEEDBACK"}

\* The values a variable is given; an unset variable reads as Undefined.
EnvTexts == {<<"1">>, <<"0">>, <<"true">>, <<>>}

EnvValues == {Str(s) : s \in EnvTexts} \cup {Undefined}

\* x === "1"
IsOne(x) == IsString(x) /\ x.v = <<"1">>

\* The flags taken by truthiness: any non-empty value counts as set.
LaunchBarEnvTruthy(pe) ==
  LET set(n) == ~Falsy(pe[n]) IN
  [actionPath |-> pe["LB_ACTION_PATH"],
   cachePath |-> pe["LB_CACHE_PATH"],
   supportPath |-> pe["LB_SUPPORT_PATH"],
   isDebugLogEnabled |-> set("LB_DEBUG_LOG_ENABLED"),
   applicationPath |-> pe["LB_LAUNCHBAR_PATH"],
   scriptType |-> pe["LB_SCRIPT_TYPE"],
   commandKey |-> set("LB_OPTION_COMMAND_KEY"),
   alternateKey |-> set("LB_OPTION_ALTERNATE_KEY"),
   shiftKey |-> set("LB_OPTION_SHIFT_KEY"),
   controlKey |-> set("LB_OPTION_CONTROL_KEY"),
   spaceKey |-> set("LB_OPTION_SPACE_KEY"),
   actionRunsInBackground |-> set("LB_OPTION_RUN_IN_BACKGROUND"),
   isLiveFeedbackEnabled |-> set("LB_OPTION_LIVE_FEEDBACK")]

\* src/index.js 219-233
LaunchBarEnv(pe) ==
  [actionPath |-> pe["LB_ACTION_PATH"],
   cachePath |-> pe["LB_CACHE_PATH"],
   supportPath |-> pe["LB_SUPPORT_PATH"],
   isDebugLogEnabled |-> IsOne(pe["LB_DEBUG_LOG_ENABLED"]),
   applicationPath |-> pe["LB_LAUNCHBAR_PATH"],
   scriptType |-> pe["LB_SCRIPT_TYPE"],
   commandKey |-> IsOne(pe["LB_OPTION_COMMAND_KEY"]),
   alternateKey |-> IsOne(pe["LB_OPTION_ALTERNATE_KEY"]),
   shiftKey |-> IsOne(pe["LB_OPTION_SHIFT_KEY"]),
   controlKey |-> IsOne(pe["LB_OPTION_CONTROL_KEY"]),
   spaceKey |-> IsOne(pe["LB_OPTION_SPACE_KEY"]),
   actionRunsInBackground |-> IsOne(pe["LB_OPTION_RUN_IN_BACKGROUND"]),
   isLiveFeedbackEnabled |-> IsOne(pe["LB_OPTION_LIVE_FEEDBACK"])]

Unset == [n \in EnvNames |-> Undefined]

\* The environments in which at most k variables, all among names, are set.
RECURSIVE EnvsUpTo(_, _)
EnvsUpTo(names, k) ==
  IF k = 0 THEN {Unset}
  ELSE LET fewer == EnvsUpTo(names, k - 1)
       IN fewer \cup {[pe EXCEPT ![n] = x] : pe \in fewer, n \in names, x \in EnvValues}

SetNames(pe) == {n \in EnvNames : pe[n].t # "undefined"}

Differing(pe, qe) == {n \in EnvNames : pe[n] # qe[n]}

\* ------------------------------------------------------------------ state

\* calls[c]: the facade call the caller holds in slot c.  state is "idle"
\* (no call), "returned" (the function returned a value that is no promise),
\* "threw" (it threw to its caller), "pending", "resolved" or "rejected" (the
\* promise it returned).  procs: the processes the call started; wrote: the
\* lines it wrote to standard output.
NoCall ==
  [op |-> "none", args |-> <<>>, state |-> "idle", value |-> Undefined,
   procs |-> <<>>, wrote |-> <<>>]

Slots == 1..MaxCalls

\* An async function.  An exception thrown while its command is built
\* rejects the promise it returns and task.execFile is never called;
\* otherwise the body reaches its await on task.execFile(cmd).
AsyncCall(op, args, threw, cmd) ==
  IF threw
  THEN [op |-> op, args |-> args, state |-> "rejected", value |-> Undefined,
        procs |-> <<>>, wrote |-> <<>>]
  ELSE [op |-> op, args |-> args, state |-> "pending", value |-> Undefined,
        procs |-> <<Spawn(cmd)>>, wrote |-> <<>>]

Start(c, call) ==
  /\ calls[c].state = "idle"
  /\ calls' = [calls EXCEPT ![c] = call]
  /\ UNCHANGED <<processEnv, loadEnv, env>>

\* src/index.js 47-49
output(c, data) ==
  Start(c, [op |-> "output", args |-> [data |-> data], state |-> "returned",
            value |-> Undefined, procs |-> <<>>, wrote |-> <<JSONStringify(data)>>])

\* src/index.js 54-59
hide(c) == Start(c, AsyncCall("hide", <<>>, FALSE, hideCommand))

\* src/index.js 64-69
remainActive(c) == Start(c, AsyncCall("remainActive", <<>>, FALSE, remainActiveCommand))

\* src/index.js 74-80
hasKeyboardFocus(c) ==
  Start(c, AsyncCall("hasKeyboardFocus", <<>>, FALSE, hasKeyboardFocusCommand))

\* src/index.js 86-93
setClipboardString(c, text) ==
  Start(c, AsyncCall("setClipboardString", [text |-> text],
                     escapeString(text).threw, setClipboardStringCommand(text)))

\* src/index.js 98-100
clearClipboard(c) ==
  Start(c, AsyncCall("clearClipboard", <<>>, FALSE, clearClipboardCommand))

\* src/index.js 106-113
paste(c, text) ==
  Start(c, AsyncCall("paste", [text |-> text], escapeString(text).threw,
                     pasteCommand(text)))

\* src/index.js 120-127
performService(c, service, argv) ==
  Start(c, AsyncCall("performService", [service |-> service, argv |-> argv],
                     escapeString(argv).threw, performServiceCommand(service, argv)))

\* src/index.js 138-161
displayNotification(c, options) ==
  Start(c, AsyncCall("displayNotification", [options |-> options],
                     displayNotificationThrows(options),
                     displayNotificationCommand(options)))

\* src/index.js 175-202: what one call of textAction leaves behind.  It is
\* no async function: an exception of its own body reaches the caller as a
\* throw, the preview branch returns console.log's undefined, and the other
\* branch returns the promise of LaunchBar.paste.
textActionCall(textArguments, f, joiner, commandKey) ==
  LET args == [textArguments |-> textArguments, f |-> f, joiner |-> joiner] IN
  IF textActionThrows(textArguments)
  THEN [op |-> "textAction", args |-> args, state |-> "threw", value |-> Undefined,
        procs |-> <<>>, wrote |-> <<>>]
  ELSE LET lines == allLines(textArguments, f) IN
       IF commandKey
       THEN [op |-> "textAction", args |-> args, state |-> "returned",
             value |-> Undefined, procs |-> <<>>, wrote |-> <<JSONTitles(lines)>>]
       ELSE [op |-> "textAction", args |-> args, state |-> "pending",
             value |-> Undefined,
             procs |-> <<Spawn(pasteCommand(Str(Join(lines, joinerOf(joiner)))))>>,
             wrote |-> <<>>]

textAction(c, textArguments, f, joiner) ==
  Start(c, textActionCall(textArguments, f, joiner, env.commandKey))

\* The process of a pending call ends: it could not be started
\* ("spawnerror"), exited with status 0 ("ok") or otherwise ("nonzero").
ProcessExit(c, status, stdout) ==
  /\ calls[c].state = "pending"
  /\ \E i \in 1..Len(calls[c].procs) :
       /\ calls[c].procs[i].state = "running"
       /\ calls' = [calls EXCEPT ![c].procs[i] =
                      [@ EXCEPT !.state = "exited", !.status = status,
                                !.stdout = IF status = "ok" THEN stdout ELSE <<>>]]
  /\ UNCHANGED <<processEnv, loadEnv, env>>

\* The value an operation resolves with, from what task.execFile resolved to.
ResolvedValue(op, result) ==
  IF op = "hasKeyboardFocus" THEN hasKeyboardFocusValue(result) ELSE Undefined

\* The awaited task.execFile promise has settled and so the promise of the
\* call settles: nothing catches a rejection and nothing starts a process anew.
Settle(c) ==
  /\ calls[c].state = "pending"
  /\ Awaited(calls[c])
  /\ LET proc == calls[c].procs[Len(calls[c].procs)] IN
     calls' = [calls EXCEPT ![c] =
                 IF execFileFulfilled(proc)
                 THEN [@ EXCEPT !.state = "resolved",
                                !.value = ResolvedValue(calls[c].op, execFileValue(proc))]
                 ELSE [@ EXCEPT !.state = "rejected"]]
  /\ UNCHANGED <<processEnv, loadEnv, env>>

\* The caller is done with a call that has returned, thrown or settled.
Return(c) ==
  /\ calls[c].state \in {"returned", "threw", "resolved", "rejected"}
  /\ calls' = [calls EXCEPT ![c] = NoCall]
  /\ UNCHANGED <<processEnv, loadEnv, env>>

\* The process environment changes after the module has been loaded.
SetEnv(n, x) ==
  /\ processEnv[n] # x
  /\ processEnv' = [processEnv EXCEPT ![n] = x]
  /\ Cardinality(SetNames(processEnv')) <= MaxEnvSet
  /\ Cardinality(Differing(processEnv', loadEnv)) <= MaxEnvChange
  /\ UNCHANGED <<loadEnv, env, calls>>

\* ----------------------------------------------------------------- inputs

Strings == {Str(s) : s \in Texts}

\* The lines and paths a caller sends as an array.
ArrayTexts == SeqsUpTo({"a", Newline}, MaxLen)

Arrays == {Arr(a) : a \in SeqsUpTo({Str(s) : s \in ArrayTexts}, MaxArgs)}

FieldValues == {Undefined, Str(<<>>), Str(<<"a">>), Str(<<Quote>>)}

DelayValues == {Undefined, Num(<<"0">>), Num(<<"5">>)}

NoOptions ==
  [given |-> FALSE, title |-> Undefined, text |-> Undefined, subtitle |-> Undefined,
   callbackUrl |-> Undefined, afterDelay |-> Undefined]

OptionRecords ==
  [given : {TRUE}, title : FieldValues, text : FieldValues, subtitle : FieldValues,
   callbackUrl : FieldValues, afterDelay : DelayValues]

Joiners == {Undefined, Str(<<"-">>)}

StdoutUnits == {"true", "false", "x", " ", Newline}

Stdouts == SeqsUpTo(StdoutUnits, MaxOut)

\* Inputs of the documented types.
Typed ==
  [text |-> Strings, service |-> Strings, argv |-> Strings \cup {Undefined},
   options |-> OptionRecords \cup {NoOptions},
   textStrings |-> Strings, textArrays |-> Arrays, textOther |-> {},
   f |-> Functions, joiner |-> Joiners, stdout |-> Stdouts]

\* Values that are no strings where a string is expected.
NotStrings == {Num(<<"5">>), Undefined}

Untyped ==
  [text |-> Strings \cup NotStrings, service |-> Strings \cup NotStrings,
   argv |-> Strings \cup NotStrings,
   options |-> OptionRecords \cup {NoOptions},
   textStrings |-> Strings, textArrays |-> Arrays,
   textOther |-> NotStrings \cup {Arr(<<Num(<<"5">>)>>)},
   f |-> Functions, joiner |-> Joiners, stdout |-> Stdouts]

\* A few inputs of the documented types, for callers that hold several calls.
Few ==
  [text |-> {Str(<<"a">>)}, service |-> {Str(<<"a">>)}, argv |-> {Str(<<"a">>)},
   options |-> {NoOptions},
   textStrings |-> {Str(<<"a">>)}, textArrays |-> {Arr(<<Str(<<"a">>)>>)},
   textOther |-> {},
   f |-> {"upper"}, joiner |-> {Undefined}, stdout |-> {<<"true", Newline>>}]

\* ------------------------------------------------------- the specifications

Statuses == {"ok", "nonzero", "spawnerror"}

\* Only hasKeyboardFocus reads what its process printed.
StdoutsOf(call, D) == IF call.op = "hasKeyboardFocus" THEN D.stdout ELSE {<<>>}

Loaded(pe) ==
  /\ processEnv = pe
  /\ loadEnv = pe
  /\ env = LaunchBarEnv(pe)
  /\ calls = [c \in Slots |-> NoCall]

\* The module has been loaded; the host set the command key flag or not.
Init ==
  \E pe \in {Unset, [Unset EXCEPT !["LB_OPTION_COMMAND_KEY"] = Str(<<"1">>)]} : Loaded(pe)

\* The calls a caller can make through a free slot.
Call(c, D) ==
  \/ \E t \in D.textOther, f \in D.f, j \in D.joiner : textAction(c, t, f, j)
  \/ \E data \in D.textStrings : output(c, data)
  \/ \E data \in D.textArrays : output(c, data)
  \/ hide(c)
  \/ remainActive(c)
  \/ hasKeyboardFocus(c)
  \/ \E text \in D.text : setClipboardString(c, text)
  \/ clearClipboard(c)
  \/ \E text \in D.text : paste(c, text)
  \/ \E service \in D.service, argv \in D.argv : performService(c, service, argv)
  \/ \E options \in D.options : displayNotification(c, options)
  \/ \E t \in D.textStrings, f \in D.f, j \in D.joiner : textAction(c, t, f, j)
  \/ \E t \in D.textArrays, f \in D.f, j \in D.joiner : textAction(c, t, f, j)

Step(S, D) ==
  \E c \in S :
    \/ calls[c].state = "idle" /\ Call(c, D)
    \/ \E status \in Statuses, stdout \in StdoutsOf(calls[c], D) :
         ProcessExit(c, status, stdout)
    \/ Settle(c)
    \/ Return(c)

\* A caller that waits for each call before it makes the next, with inputs of
\* the documented types.
Next == Step({1}, Typed)

Spec == Init /\ [][Next]_vars

\* The same caller passing values of any type.
NextUntyped == Step({1}, Untyped)

SpecUntyped == Init /\ [][NextUntyped]_vars

\* A caller that makes a call while others are pending.
NextConcurrent == Step(Slots, Few)

SpecConcurrent == Init /\ [][NextConcurrent]_vars

\* The environment at module load and its changes afterwards.
InitEnv == \E pe \in EnvsUpTo(EnvNames, MaxEnvSet) : Loaded(pe)

NextEnv == \E n \in EnvNames, x \in EnvValues : SetEnv(n, x)

SpecEnv == InitEnv /\ [][NextEnv]_vars

\* ===================================================================
\* Properties
\* ===================================================================

Settled(call) == call.state \in {"resolved", "rejected"}

Running(call) == {i \in 1..Len(call.procs) : call.procs[i].state = "running"}

\* ------------------------------------------------------------------- C1

ClipboardCode == <<"tell application ", " to set the clipboard to ">>

PasteCode == <<"tell application ", " to paste in frontmost application ">>

\* C1: whatever string s setClipboardString(s) or paste(s) is given, the
\* interpreter reads the command sent as the template's own text with
\* exactly two closed string literals, "LaunchBar" and s itself: no
\* character of s ends the literal or adds to the command.
C1_TextStaysInItsLiteral ==
  \A c \in Slots :
    LET call == calls[c] IN
    (call.op \in {"setClipboardString", "paste"} /\ IsString(call.args.text)) =>
      /\ Len(call.procs) = 1
      /\ LET read == Lex(call.procs[1].cmd) IN
         /\ ~read.open
         /\ read.lits = <<<<"LaunchBar">>, call.args.text.v>>
         /\ read.code = IF call.op = "paste" THEN PasteCode ELSE ClipboardCode

\* A paste of the text backslash, quote has been sent and has resolved.
C1_Witness ==
  \E c \in Slots :
    /\ calls[c].op = "paste"
    /\ calls[c].args.text = Str(<<Backslash, Quote>>)
    /\ calls[c].state = "resolved"

\* ------------------------------------------------------------------- C2

\* The text of the five fields as a displayNotification command embeds them:
\* what stands between the quote after a piece of the template and the
\* quote before the next piece.
EmbeddedFields(cmd) ==
  LET at(k) == CHOOSE i \in 1..Len(cmd) : cmd[i] = NotifyCode[k] IN
  [text |-> SubSeq(cmd, at(2) + 2, at(3) - 2),
   title |-> SubSeq(cmd, at(3) + 2, at(4) - 2),
   subtitle |-> SubSeq(cmd, at(4) + 2, at(5) - 2),
   callbackUrl |-> SubSeq(cmd, at(5) + 2, at(6) - 2),
   afterDelay |-> SubSeq(cmd, at(6) + 2, Len(cmd) - 1)]

\* The escaped form of a caller's value.
Escaped(x) == IF IsString(x) THEN EscapeText(x.v) ELSE Interpolate(x)

\* C2: every caller-supplied value stands in the command sent in escaped
\* form: the service and argv of performService, the text, title, subtitle,
\* callbackUrl and afterDelay of displayNotification, and the text of
\* setClipboardString and paste.
C2_EveryValueEscaped ==
  \A c \in Slots :
    LET call == calls[c] IN
    Len(call.procs) = 1 =>
    /\ call.op = "performService" =>
         call.procs[1].cmd =
           TellLaunchBar \o <<" to perform service ", Quote>> \o Escaped(call.args.service)
             \o <<Quote, " with string ", Quote>> \o Escaped(call.args.argv) \o <<Quote>>
    /\ (call.op = "displayNotification" /\ call.args.options.given) =>
         LET o == call.args.options
             e == EmbeddedFields(call.procs[1].cmd) IN
         /\ ~Falsy(o.text) => e.text = Escaped(o.text)
         /\ ~Falsy(o.title) => e.title = Escaped(o.title)
         /\ ~Falsy(o.subtitle) => e.subtitle = Escaped(o.subtitle)
         /\ ~Falsy(o.callbackUrl) => e.callbackUrl = Escaped(o.callbackUrl)
         /\ ~Falsy(o.afterDelay) => e.afterDelay = Escaped(o.afterDelay)
    /\ call.op \in {"setClipboardString", "paste"} =>
         LET cmd == call.procs[1].cmd IN
         SubSeq(cmd, Len(TellLaunchBar) + 3, Len(cmd) - 1) = Escaped(call.args.text)

\* ------------------------------------------------------------------- C3

\* The text is the word true with nothing but whitespace around it.
IsTrueInWhitespace(out) ==
  \E i \in 1..Len(out) :
    /\ out[i] = "true"
    /\ \A j \in 1..Len(out) : j # i => out[j] \in Whitespace

\* C3: hasKeyboardFocus() resolves with true exactly when what the process
\* printed is, whitespace around it aside, the text "true", and with false
\* for every other output.
C3_FocusIffTrimmedTrue ==
  \A c \in Slots :
    LET call == calls[c] IN
    (call.op = "hasKeyboardFocus" /\ call.state = "resolved") =>
      /\ call.value.t = "boolean"
      /\ (call.value = Bool(TRUE)) <=> IsTrueInWhitespace(call.procs[1].stdout)

\* The process printed "true" and a newline, and the call resolved with true.
C3_Witness ==
  \E c \in Slots :
    /\ calls[c].op = "hasKeyboardFocus"
    /\ calls[c].state = "resolved"
    /\ calls[c].procs[1].stdout = <<"true", Newline>>
    /\ calls[c].value = Bool(TRUE)

\* ------------------------------------------------------------------- C4

\* The input strings of a textAction call, in order.
InputsOf(textArguments) ==
  IF IsString(textArguments) THEN <<textArguments.v>>
  ELSE [i \in 1..Len(textArguments.v) |-> textArguments.v[i].v]

NewlinesOf(s) == {i \in 1..Len(s) : s[i] = Newline}

SegmentCount(s) == Cardinality(NewlinesOf(s)) + 1

\* Where the k-th segment of s ends: at the k-th newline, or past the end.
CutOf(s, k) ==
  IF k = 0 THEN 0
  ELSE IF k = SegmentCount(s) THEN Len(s) + 1
  ELSE CHOOSE p \in NewlinesOf(s) : Cardinality({q \in NewlinesOf(s) : q <= p}) = k

SegmentOf(s, k) == SubSeq(s, CutOf(s, k - 1) + 1, CutOf(s, k) - 1)

\* The number of segments of the inputs before the i-th.
RECURSIVE SegmentsBefore(_, _)
SegmentsBefore(inputs, i) ==
  IF i <= 1 THEN 0 ELSE SegmentsBefore(inputs, i - 1) + SegmentCount(inputs[i - 1])

\* f of every newline-separated segment, in input order then segment order.
ExpectedLines(inputs, f) ==
  [n \in 1..SegmentsBefore(inputs, Len(inputs) + 1) |->
     LET i == CHOOSE j \in 1..Len(inputs) :
                SegmentsBefore(inputs, j) < n /\ n <= SegmentsBefore(inputs, j + 1)
     IN Apply(f, SegmentOf(inputs[i], n - SegmentsBefore(inputs, i)))]

\* How the reader of standard output reads a JSON text: the string literals
\* in order, unescaped, and the units outside them.
JSONReadStep(st, u) ==
  CASE st.mode = "out" /\ u = Quote -> [st EXCEPT !.mode = "in", !.cur = <<>>]
    [] st.mode = "out" /\ u # Quote -> [st EXCEPT !.code = Append(@, u)]
    [] st.mode = "in" /\ u = Quote ->
         [st EXCEPT !.mode = "out", !.lits = Append(@, st.cur), !.cur = <<>>]
    [] st.mode = "in" /\ u = Backslash -> [st EXCEPT !.mode = "esc"]
    [] st.mode = "in" /\ u \notin {Quote, Backslash} -> [st EXCEPT !.cur = Append(@, u)]
    [] st.mode = "esc" ->
         [st EXCEPT !.mode = "in", !.cur = Append(@, IF u = "n" THEN Newline ELSE u)]

RECURSIVE JSONReadRange(_, _, _, _)
JSONReadRange(text, lo, hi, st) ==
  IF lo > hi THEN st
  ELSE IF lo = hi THEN JSONReadStep(st, text[lo])
  ELSE LET mid == (lo + hi) \div 2
           half == JSONReadRange(text, lo, mid, st)
       IN IF half.mode \in ReadModes THEN JSONReadRange(text, mid + 1, hi, half) ELSE half

JSONRead(text) ==
  LET st == JSONReadRange(text, 1, Len(text), ReadStart) IN
  [lits |-> st.lits, code |-> st.code, open |-> st.mode # "out"]

\* The punctuation of an array of n one-field records.
RECURSIVE RecordsCode(_)
RecordsCode(n) ==
  IF n = 0 THEN <<>>
  ELSE <<"{", ":", "}">> \o (IF n > 1 THEN <<",">> ELSE <<>>) \o RecordsCode(n - 1)

IsTitlesJSON(text, lines) ==
  LET read == JSONRead(text) IN
  /\ ~read.open
  /\ read.code = <<"[">> \o RecordsCode(Len(lines)) \o <<"]">>
  /\ Len(read.lits) = 2 * Len(lines)
  /\ \A k \in 1..Len(lines) :
       read.lits[2 * k - 1] = <<"title">> /\ read.lits[2 * k] = lines[k]

\* C4: textAction applies f to every newline-separated segment of every
\* input string, in input order then segment order.  With the commandKey
\* flag it writes the JSON array of {title: line} records and starts no
\* paste; without it it writes nothing and pastes the lines joined by the
\* joiner.  A single string, f the identity and the default joiner paste the
\* input itself.
C4_TextActionLines ==
  \A c \in Slots :
    LET call == calls[c] IN
    (call.op = "textAction" /\ ~textActionThrows(call.args.textArguments)) =>
      LET lines == ExpectedLines(InputsOf(call.args.textArguments), call.args.f)
          joiner == IF call.args.joiner.t = "undefined" THEN <<Newline>>
                    ELSE call.args.joiner.v
      IN IF env.commandKey
         THEN /\ call.state = "returned"
              /\ call.procs = <<>>
              /\ Len(call.wrote) = 1
              /\ IsTitlesJSON(call.wrote[1], lines)
         ELSE /\ call.state \in {"pending", "resolved", "rejected"}
              /\ call.wrote = <<>>
              /\ Len(call.procs) = 1
              /\ LET read == Lex(call.procs[1].cmd) IN
                 /\ ~read.open
                 /\ read.code = PasteCode
                 /\ read.lits = <<<<"LaunchBar">>, Join(lines, joiner)>>
                 /\ (/\ IsString(call.args.textArguments)
                     /\ call.args.f = "identity"
                     /\ call.args.joiner.t = "undefined")
                    => read.lits[2] = call.args.textArguments.v

\* textAction(["a\n", "a"], upper, "-") without the commandKey flag has
\* pasted "A--A" and resolved.
C4_Witness ==
  \E c \in Slots :
    /\ calls[c].op = "textAction"
    /\ calls[c].args.textArguments.t = "array"
    /\ InputsOf(calls[c].args.textArguments) = <<<<"a", Newline>>, <<"a">>>>
    /\ calls[c].args.f = "upper"
    /\ calls[c].args.joiner = Str(<<"-">>)
    /\ calls[c].state = "resolved"
    /\ Lex(calls[c].procs[1].cmd).lits[2] = <<"A", "-", "-", "A">>

\* ------------------------------------------------------------------- C5

\* C5: displayNotification() without arguments starts its process, and the
\* interpreter reads its command as the template with the literals
\* "LaunchBar", "" (text), "LaunchBar" (title), "" (subtitle), "" (callback
\* URL) and "0" (delay).
C5_NoArgumentsDefaults ==
  \A c \in Slots :
    LET call == calls[c] IN
    (call.op = "displayNotification" /\ ~call.args.options.given) =>
      /\ call.state \in {"pending", "resolved", "rejected"}
      /\ Len(call.procs) = 1
      /\ LET read == Lex(call.procs[1].cmd) IN
         /\ ~read.open
         /\ read.code = NotifyCode
         /\ read.lits = <<<<"LaunchBar">>, <<>>, <<"LaunchBar">>, <<>>, <<>>, <<"0">>>>

\* displayNotification() has been called and has resolved.
C5_Witness ==
  \E c \in Slots :
    /\ calls[c].op = "displayNotification"
    /\ ~calls[c].args.options.given
    /\ calls[c].state = "resolved"
    /\ calls[c].procs[1].status = "ok"

\* ------------------------------------------------------------------- C6

Omitted(x) == x.t = "undefined"

\* A call started its one process and did not fail before.
Spawned(call) ==
  /\ call.state \in {"pending", "resolved", "rejected"}
  /\ Len(call.procs) = 1

\* A process that exits with status 0 resolves its call.
ResolvesOnSuccess(call) ==
  (Settled(call) /\ call.procs[1].status = "ok") => call.state = "resolved"

\* performService(service) with argv left out starts its process and resolves.
PerformServiceWithoutArgv(call) ==
  (call.op = "performService" /\ Omitted(call.args.argv)) =>
    Spawned(call) /\ ResolvesOnSuccess(call)

\* C6: displayNotification with any subset of its fields left out starts
\* its process, with the default for every omitted field (text "", title
\* "LaunchBar", subtitle "", callbackUrl "", afterDelay 0) and the given
\* value for every supplied one; performService without argv starts its
\* process and resolves.
C6_OmittedInputsNeverFail ==
  \A c \in Slots :
    LET call == calls[c] IN
    /\ PerformServiceWithoutArgv(call)
    /\ (call.op = "displayNotification" /\ call.args.options.given) =>
         /\ Spawned(call)
         /\ ResolvesOnSuccess(call)
         /\ LET o == call.args.options
                e == EmbeddedFields(call.procs[1].cmd) IN
            /\ e.text = IF Omitted(o.text) THEN <<>> ELSE Escaped(o.text)
            /\ e.title = IF Omitted(o.title) THEN <<"LaunchBar">> ELSE Escaped(o.title)
            /\ e.subtitle = IF Omitted(o.subtitle) THEN <<>> ELSE Escaped(o.subtitle)
            /\ e.callbackUrl = IF Omitted(o.callbackUrl) THEN <<>> ELSE o.callbackUrl.v
            /\ e.afterDelay = IF Omitted(o.afterDelay) THEN <<"0">> ELSE o.afterDelay.v

\* displayNotification({text: "a", afterDelay: 5}) has been rejected without
\* a process: escapeString threw on the omitted title.
C6_Witness ==
  \E c \in Slots :
    /\ calls[c].op = "displayNotification"
    /\ calls[c].args.options.given
    /\ calls[c].args.options.text = Str(<<"a">>)
    /\ calls[c].args.options.afterDelay = Num(<<"5">>)
    /\ Omitted(calls[c].args.options.title)
    /\ Omitted(calls[c].args.options.subtitle)
    /\ Omitted(calls[c].args.options.callbackUrl)
    /\ calls[c].state = "rejected"
    /\ calls[c].procs = <<>>

\* ------------------------------------------------------------------- C7

\* A value that is no string where the operation expects one.
Malformed(call) ==
  \/ call.op \in {"setClipboardString", "paste"} /\ ~IsString(call.args.text)
  \/ call.op = "performService" /\ ~IsString(call.args.service)
  \/ call.op = "performService" /\ call.args.argv.t \notin {"string", "undefined"}
  \/ call.op = "textAction" /\ textActionThrows(call.args.textArguments)

\* C7: a process that cannot be started, a process that exits with a
\* failure and a malformed input all reach the caller as a rejected promise:
\* no operation throws to its caller, none goes on with a malformed value in
\* its command, and a failed process rejects its call.
C7_ErrorsSurfaceAsRejections ==
  \A c \in Slots :
    LET call == calls[c] IN
    /\ call.state # "threw"
    /\ Malformed(call) => (call.state = "rejected" /\ call.procs = <<>>)
    /\ (call.state \in {"resolved", "rejected"} /\ call.procs # <<>>
        /\ call.procs[1].status # "ok") => call.state = "rejected"

\* ------------------------------------------------------------------- C8

IsLiteralOne(n) == loadEnv[n].t = "string" /\ loadEnv[n].v = <<"1">>

\* C8: every boolean field of LaunchBar.env is true exactly when its
\* variable held the string "1" when the module was loaded, whatever the
\* variable holds later, and every string field is the variable's value at
\* load, undefined for an unset one.
C8_FlagsAreLiteralOneAtLoad ==
  /\ env.isDebugLogEnabled = IsLiteralOne("LB_DEBUG_LOG_ENABLED")
  /\ env.commandKey = IsLiteralOne("LB_OPTION_COMMAND_KEY")
  /\ env.alternateKey = IsLiteralOne("LB_OPTION_ALTERNATE_KEY")
  /\ env.shiftKey = IsLiteralOne("LB_OPTION_SHIFT_KEY")
  /\ env.controlKey = IsLiteralOne("LB_OPTION_CONTROL_KEY")
  /\ env.spaceKey = IsLiteralOne("LB_OPTION_SPACE_KEY")
  /\ env.actionRunsInBackground = IsLiteralOne("LB_OPTION_RUN_IN_BACKGROUND")
  /\ env.isLiveFeedbackEnabled = IsLiteralOne("LB_OPTION_LIVE_FEEDBACK")
  /\ env.actionPath = loadEnv["LB_ACTION_PATH"]
  /\ env.cachePath = loadEnv["LB_CACHE_PATH"]
  /\ env.supportPath = loadEnv["LB_SUPPORT_PATH"]
  /\ env.applicationPath = loadEnv["LB_LAUNCHBAR_PATH"]
  /\ env.scriptType = loadEnv["LB_SCRIPT_TYPE"]

\* The shift key variable was "true" at load, which is not "1", and has been
\* set to "1" since: the flag is false.
C8_Witness ==
  /\ loadEnv["LB_OPTION_SHIFT_KEY"] = Str(<<"true">>)
  /\ processEnv["LB_OPTION_SHIFT_KEY"] = Str(<<"1">>)
  /\ ~env.shiftKey

\* ------------------------------------------------------------------- C9

SpawningOps ==
  {"hide", "remainActive", "hasKeyboardFocus", "setClipboardString",
   "clearClipboard", "paste", "performService", "displayNotification"}

\* C9: a call of hide, remainActive, hasKeyboardFocus, setClipboardString,
\* clearClipboard, paste, performService or displayNotification has started
\* exactly one process, before and after that process succeeds or fails; a
\* call of output has started none; a call of textAction has started one
\* without the commandKey flag and none with it.
C9_OneProcessPerCall ==
  \A c \in Slots :
    LET call == calls[c] IN
    /\ call.op \in SpawningOps => Len(call.procs) = 1
    /\ call.op = "output" => Len(call.procs) = 0
    /\ call.op = "textAction" => Len(call.procs) = IF env.commandKey THEN 0 ELSE 1

\* performService("a") without argv has been rejected and has started no
\* process: escapeString threw on the omitted argv.
C9_Witness ==
  \E c \in Slots :
    /\ calls[c].op = "performService"
    /\ calls[c].args.service = Str(<<"a">>)
    /\ Omitted(calls[c].args.argv)
    /\ calls[c].state = "rejected"
    /\ calls[c].procs = <<>>

\* ------------------------------------------------------------------ C10

AllRunning == {c \in Slots : Running(calls[c]) # {}}

\* C10 as stated: a call settles only after its process has exited, and no
\* two processes started by the facade ever run at the same time.
C10_NeverTwoProcessesRunning ==
  /\ \A c \in Slots : calls[c].state # "pending" => Running(calls[c]) = {}
  /\ Cardinality(AllRunning) <= 1

\* C10 as amended: a call settles only after its process has exited, and no
\* call ever has more than one process running; a process runs only while
\* its own call is pending.
C10_SettlesAfterExit ==
  \A c \in Slots :
    /\ calls[c].state # "pending" => Running(calls[c]) = {}
    /\ Cardinality(Running(calls[c])) <= 1
    /\ Settled(calls[c]) => calls[c].procs[1].state = "exited"

\* A textAction call has resolved after its paste exited while the process
\* of a hide call made meanwhile is still running.
C10_Witness ==
  \E c, d \in Slots :
    /\ calls[c].op = "textAction"
    /\ calls[c].state = "resolved"
    /\ calls[c].procs[1].state = "exited"
    /\ calls[d].op = "hide"
    /\ calls[d].state = "pending"
    /\ Running(calls[d]) # {}

====
